---- MODULE Spec2Model ----
(***************************************************************************)
(* Model of the yoke-cli workflow engine: the LangGraph router/scheduler   *)
(* (buildGraphFromWorkflow), the node handler (createNodeHandler with      *)
(* runExec), the run store, the cache store and the run orchestrator with  *)
(* its resume branch (WorkflowRuntime.run).                                *)
(***************************************************************************)
EXTENDS Integers, Sequences, FiniteSets, TLC

\* ---------------------------------------------------------------- bounds
MaxNodes == 3        \* number of nodes in the workflow
MaxEdges == 2        \* total number of dependency entries in the workflow
MaxAttempts == 2     \* run attempts (fresh or resumed) per behaviour
MaxItems == 2        \* length of the collection of a fan-out node
MaxVal == 2          \* distinct values an item of the collection can have
MaxField == 2        \* distinct values of a field of a node spec, besides absent

\* ------------------------------------------------------------- workflow
Nodes == 1..MaxNodes                 \* node ids, in declaration order
Missing == 0                         \* a dependency id that names no node
DepIds == Nodes \cup {Missing}

Terminal == {"SUCCESS", "CACHED", "FAILED", "SKIPPED"}
Completed == {"SUCCESS", "CACHED"}

NoOutput == [result |-> <<>>, artifacts |-> <<>>, hash |-> 0, cached |-> FALSE]
NoFailure == [nodeId |-> 0, error |-> "none"]
NoRecord == [status |-> "NONE", startTime |-> -1, endTime |-> -1,
             duration |-> -1, output |-> NoOutput, error |-> "none"]

VARIABLES
    deps,        \* workflow: node id -> set of dependency ids
    det,         \* workflow: node id -> deterministic flag ("true","false","absent")
    pc,          \* position of the orchestrator
    cur,         \* node routed to by the conditional edge (0: none)
    state,       \* in-memory RunState: statuses, outputs, next, failed
    ckpt,        \* durable checkpoint of the thread (hasValues FALSE: none)
    meta,        \* run store metadata (run.json)
    cache,       \* cache store: key -> entry (NoOutput: absent)
    now,         \* wall clock
    attempt,     \* number of attempts started
    isResume,    \* the current attempt was started with a thread id
    thrown,      \* error the last attempt ended with
    stuck,       \* ids listed by the deadlock error
    spawned,     \* per node: number of command invocations in this attempt
    dispatched,  \* per node: number of dispatches in this attempt
    atStart,     \* what was on disk when the attempt started: the snapshot loaded
                 \* by a resume, and the node records of the previous attempt
    kind,        \* workflow: node id -> "exec", "task" or "map"
    over,        \* workflow: the collection the map node fans out over
    items,       \* runMap: per index, where the item is and what it returned
    order,       \* runMap: indices in the order in which the items completed
    timeout,     \* workflow: node id -> timeout of the command (0: none)
    agent,       \* workflow: node id -> agent named by the task or by the task body
    body,        \* workflow: node id -> kind of the body of a map or reduce node
    proc,        \* runExec: per node, the child process, the timer and the promise
    specs,       \* cache key: two fully resolved node specs
    keys         \* cache key: the keys computed for the two specs (<<>>: not yet)

vars == <<deps, det, pc, cur, state, ckpt, meta, cache, now, attempt, isResume,
          thrown, stuck, spawned, dispatched, atStart, kind, over, items, order,
          timeout, agent, body, proc, specs, keys>>

\* what no step of a run changes: the workflow, and the specs and keys of the
\* cache-key function
wfVars == <<deps, det, kind, over, timeout, agent, body, specs, keys>>

\* ---------------------------------------------------------------- run store
\* RunStore.setNodeStatus: the first write creates the record with its start
\* time; SUCCESS, FAILED and CACHED stamp the end time and the duration.
SetNodeStatus(nodes, id, status, t) ==
    IF nodes[id].status = "NONE"
    THEN [nodes EXCEPT ![id] = [NoRecord EXCEPT !.status = status, !.startTime = t]]
    ELSE IF status \in {"SUCCESS", "FAILED", "CACHED"}
         THEN [nodes EXCEPT ![id] =
                 [@ EXCEPT !.status = status, !.endTime = t,
                           !.duration = IF nodes[id].startTime # -1
                                        THEN t - nodes[id].startTime ELSE @]]
         ELSE [nodes EXCEPT ![id] = [@ EXCEPT !.status = status]]

\* RunStore.setNodeOutput
SetNodeOutput(nodes, id, output) ==
    IF nodes[id].status = "NONE"
    THEN [nodes EXCEPT ![id] = [NoRecord EXCEPT !.status = "SUCCESS", !.output = output]]
    ELSE [nodes EXCEPT ![id] = [@ EXCEPT !.output = output]]

\* RunStore.setNodeError
SetNodeError(nodes, id, error) ==
    [nodes EXCEPT ![id] = [@ EXCEPT !.error = error, !.status = "FAILED"]]

\* mutant: the run is always completed as success
CompleteSuccess(m, status, t) == [m EXCEPT !.endTime = t, !.status = "success"]

\* RunStore.complete
Complete(m, status, t) == [m EXCEPT !.endTime = t, !.status = status]

\* setNodeStatus applied to each id of a set, all at time t
RECURSIVE SetStatusAll(_, _, _, _)
SetStatusAll(nodes, ids, status, t) ==
    IF ids = {} THEN nodes
    ELSE LET id == CHOOSE x \in ids : \A y \in ids : x <= y
         IN SetStatusAll(SetNodeStatus(nodes, id, status, t), ids \ {id}, status, t)

\* new RunStore(runDir, workflowName): fresh metadata with a new thread id
NewRunStore(prevThread) ==
    [threadId |-> prevThread + 1, status |-> "running", endTime |-> -1,
     nodes |-> [n \in Nodes |-> NoRecord]]

\* -------------------------------------------------------------- run state
WorkflowVars == <<1>>                \* the vars section of the workflow
NoVars == <<>>

\* createInitialState(workflow.vars)
InitialState ==
    [vars |-> WorkflowVars, statuses |-> [n \in Nodes |-> "NONE"],
     outputs |-> [n \in Nodes |-> NoOutput], next |-> <<>>, failed |-> NoFailure]

\* the defaults of the channels of RunStateAnnotation
ChannelDefaults == [InitialState EXCEPT !.vars = NoVars]

\* ---------------------------------------------------------------- router
\* router node: a node is skipped when a dependency is FAILED or SKIPPED in the
\* statuses the tick started with
\* mutant: a node is skipped as soon as a dependency has not completed
anyDepNotComplete(S, n) == \E d \in deps[n] : d \in Nodes /\ S[d] \notin Completed

anyDepFailed(S, n) == \E d \in deps[n] : d \in Nodes /\ S[d] \in {"FAILED", "SKIPPED"}

\* mutant: a node is ready as soon as one dependency has completed
someDepComplete(S, n) ==
    deps[n] = {} \/ \E d \in deps[n] : d \in Nodes /\ S[d] \in Completed

allDepsComplete(S, n) == \A d \in deps[n] : d \in Nodes /\ S[d] \in Completed

\* mutant: a FAILED node is evaluated again
UnprocessedRetriesFailed(S, n) == S[n] \notin {"SUCCESS", "CACHED", "SKIPPED", "RUNNING"}

Unprocessed(S, n) == S[n] \notin Terminal /\ S[n] # "RUNNING"

RouterSkipped(S) == {n \in Nodes : Unprocessed(S, n) /\ anyDepFailed(S, n)}

\* mutant: the frontier lists the ready nodes last declared first
RouterReadyReversed(S) ==
    SelectSeq([i \in 1..MaxNodes |-> MaxNodes + 1 - i],
              LAMBDA n : Unprocessed(S, n) /\ ~anyDepFailed(S, n) /\ allDepsComplete(S, n))

\* mutant: nodes that have been processed are ready again
RouterReadyAgain(S) ==
    SelectSeq([i \in 1..MaxNodes |-> i],
              LAMBDA n : ~anyDepFailed(S, n) /\ allDepsComplete(S, n))

RouterReady(S) ==
    SelectSeq([i \in 1..MaxNodes |-> i],
              LAMBDA n : Unprocessed(S, n) /\ ~anyDepFailed(S, n) /\ allDepsComplete(S, n))

\* mutant: the frontier computed by the router is not written to the state
RouterUpdateStaleNext(st) ==
    [st EXCEPT !.statuses = [n \in Nodes |-> IF n \in RouterSkipped(st.statuses)
                                             THEN "SKIPPED" ELSE st.statuses[n]]]

\* mutant: the reducer of the frontier appends the update to the old value
RouterUpdateAccumulating(st) ==
    [st EXCEPT !.next = st.next \o RouterReady(st.statuses),
               !.statuses = [n \in Nodes |-> IF n \in RouterSkipped(st.statuses)
                                             THEN "SKIPPED" ELSE st.statuses[n]]]

\* the state the conditional edge sees: the router's update merged by the reducers
RouterUpdate(st) ==
    [st EXCEPT !.next = RouterReady(st.statuses),
               !.statuses = [n \in Nodes |-> IF n \in RouterSkipped(st.statuses)
                                             THEN "SKIPPED" ELSE st.statuses[n]]]

\* conditional edge: number of processed entries, pending nodes, route
\* mutant: every node counts as processed
processedNodesAll(st) == Nodes

processedNodes(st) == {n \in Nodes : st.statuses[n] \notin {"NONE", "PENDING", "RUNNING"}}

pendingNodes(st) == {n \in Nodes : st.statuses[n] \in {"NONE", "PENDING"}}

\* mutant: an empty frontier always ends the graph
RouteNoDeadlock(st) ==
    IF Cardinality(processedNodes(st)) = MaxNodes THEN "end"
    ELSE IF Len(st.next) = 0 THEN "end" ELSE "node"

Route(st) ==
    IF Cardinality(processedNodes(st)) = MaxNodes THEN "end"
    ELSE IF Len(st.next) = 0
         THEN IF pendingNodes(st) # {} THEN "deadlock" ELSE "end"
         ELSE "node"

\* ------------------------------------------------------------- executors
\* hashInputs of the resolved exec spec: every node runs its own command
KeyOf(n) == n

\* mutant: every step reads and writes the cache
CacheEnabledAlways(n) == TRUE

\* runExec reads and writes the cache unless deterministic is false
CacheEnabled(n) == det[n] # "false"

\* runTask reads and writes the cache only if deterministic is set
TaskCacheEnabled(n) == det[n] = "true"

\* mutant: the cache entry is returned as it was stored
CacheHitAsStored(hit, key) == hit

\* runExec, cache hit
CacheHit(hit, key) == [hit EXCEPT !.hash = key, !.cached = TRUE]

\* runExec, output of an executed command
ExecOutput(n, r) == [result |-> r, artifacts |-> <<n>>, hash |-> KeyOf(n), cached |-> FALSE]

\* mutant: the output of an executed command is never stored
CachePutNever(c, n, output) == c

\* runExec, cache put after a successful execution
CachePut(c, n, output) ==
    IF CacheEnabled(n) THEN [c EXCEPT ![KeyOf(n)] = output] ELSE c

\* mutant: any name is found in the registry
RegistryOfAnything == {"cursor", "augie", "cloud_code", "ghost"}

\* AgentRegistry: the names of the registered agents
Registry == {"cursor", "augie", "cloud_code"}

\* every node names a registered agent
KnownAgents == [n \in Nodes |-> "cursor"]

\* the first node names an agent that is not registered
GhostAgent == [KnownAgents EXCEPT ![1] = "ghost"]

\* every body is a command
ExecBodies == [n \in Nodes |-> "exec"]

\* registered agents and command bodies only
PlainSteps == agent = KnownAgents /\ body = ExecBodies

\* the step a handler runs for a node: runReduce hands its body to runExec or
\* runTask and returns what they return
StepKind(n) == IF kind[n] = "reduce" THEN body[n] ELSE kind[n]

\* no node declares a timeout
NoTimeouts == [n \in Nodes |-> 0]

\* runExec before spawn: no child, no timer, no promise
NoProc == [child |-> "none", timer |-> "none", promise |-> "none", code |-> 0, files |-> FALSE]

NoProcs == [n \in Nodes |-> NoProc]

\* exit codes the close event can carry: of a child that ran to its end, of a
\* child that was sent SIGKILL (null, read as -1, or 0 when it had already
\* exited), and of a child that could not be started
ExitCodes(child) ==
    IF child = "alive" THEN {0, 1}
    ELSE IF child = "killed" THEN {0, -1}
    ELSE {-1}

\* mutant: a promise takes the last outcome it is given
SettleLast(promise, outcome) == outcome

\* resolve and reject of the promise runExec awaits: a promise settles once
Settle(promise, outcome) == IF promise = "pending" THEN outcome ELSE promise

\* mutant: the declared files are not looked for
VerifiedByExitCode(code, produced) == code = 0

\* runExec after the wait: exit code 0 and every declared file present
Verified(code, produced) == code = 0 /\ produced

\* createNodeHandler: final status of a completed node
FinalStatus(output) == IF output.cached THEN "CACHED" ELSE "SUCCESS"

\* ---------------------------------------------------------------- runMap
MapConcurrency == 5                  \* pLimit(5)

Vals == 1..MaxVal                    \* item values
Collections == UNION {[1..k -> Vals] : k \in 0..MaxItems}

\* hashInputs of the map body rendered with the item
ItemKey(x) == MaxNodes + x

Keys == 1..(MaxNodes + MaxVal)       \* cache keys of the nodes and of the items

\* the fan-out node of the workflow
Owner == CHOOSE n \in Nodes : kind[n] = "map"

Indices == 1..Len(over)

\* item slots: enough for the longest collection of any specification
Slots == IF MaxItems > MapConcurrency THEN MaxItems ELSE MapConcurrency + 1

NoItems == [i \in 1..Slots |-> [st |-> "none", res |-> <<>>]]

\* items.map(...): one limited call per item of the collection
QueuedItems ==
    [i \in 1..Slots |-> [st |-> IF i \in Indices THEN "queued" ELSE "none", res |-> <<>>]]

\* runExec of the body rendered with item x: what the command prints depends
\* on the item and on the run in which it is executed
ItemOutput(x) ==
    [result |-> <<x, attempt>>, artifacts |-> <<ItemKey(x)>>, hash |-> ItemKey(x), cached |-> FALSE]

\* mutant: the results are collected in the order in which the items completed
MapResultAsCompleted(its) == [k \in 1..Len(order) |-> its[order[k]].res]

\* Promise.all: the results in the order of the collection
MapResult(its) == [i \in 1..Len(over) |-> its[i].res]

\* the output runMap returns: no artifacts, no hash, never cached
MapOutput(its) == [result |-> MapResult(its), artifacts |-> <<>>, hash |-> 0, cached |-> FALSE]

\* ------------------------------------------------------------ workflows
Edges == Nodes \X DepIds

\* sets of at most k dependency entries
RECURSIVE EdgeSets(_)
EdgeSets(k) ==
    IF k = 0 THEN {{}}
    ELSE LET smaller == EdgeSets(k - 1)
         IN smaller \cup {E \cup {e} : E \in smaller, e \in Edges}

Workflows == {[n \in Nodes |-> {d \in DepIds : <<n, d>> \in E}] : E \in EdgeSets(MaxEdges)}

\* nodes that n depends on, directly or transitively, in workflow dp
RECURSIVE UpClosure(_, _)
UpClosure(dp, S) ==
    LET T == S \cup {d \in Nodes : \E m \in S : d \in dp[m]}
    IN IF T = S THEN S ELSE UpClosure(dp, T)

Ancestors(dp, n) == UpClosure(dp, dp[n] \cap Nodes)

Acyclic(dp) == \A n \in Nodes : n \notin Ancestors(dp, n)

ValidDeps(dp) == \A n \in Nodes : dp[n] \subseteq Nodes

Flags == {"true", "false", "absent"}

NoSnapshot == [has |-> FALSE, statuses |-> [n \in Nodes |-> "NONE"],
               nodes |-> [n \in Nodes |-> NoRecord]]

\* no attempt has been started
IdleRun ==
    /\ pc = "idle"
    /\ cur = 0
    /\ state = InitialState
    /\ ckpt = [has |-> FALSE, values |-> InitialState]
    /\ meta = [threadId |-> 0, status |-> "none", endTime |-> -1,
               nodes |-> [n \in Nodes |-> NoRecord]]
    /\ cache = [k \in Keys |-> NoOutput]
    /\ now = 0
    /\ attempt = 0
    /\ isResume = FALSE
    /\ thrown = "none"
    /\ stuck = {}
    /\ spawned = [n \in Nodes |-> 0]
    /\ dispatched = [n \in Nodes |-> 0]
    /\ atStart = NoSnapshot
    /\ items = NoItems
    /\ order = <<>>
    /\ proc = NoProcs

\* nothing has run yet: no run directory, no thread, an empty cache
Idle ==
    /\ specs = <<>>
    /\ keys = <<>>
    /\ IdleRun

\* a workflow of exec nodes only
ExecOnly ==
    /\ kind = [n \in Nodes |-> "exec"]
    /\ over = <<>>
    /\ timeout = NoTimeouts
    /\ PlainSteps

\* every workflow shape, no node declaring a determinism flag
Init ==
    /\ deps \in Workflows
    /\ det = [n \in Nodes |-> "absent"]
    /\ ExecOnly
    /\ Idle

\* the workflow without dependencies and the linear workflow 1 -> 2 -> ...
Independent == [n \in Nodes |-> {}]

Linear == [n \in Nodes |-> IF n = 1 THEN {} ELSE {n - 1}]

\* the two workflows above, every combination of determinism flags
CacheInit ==
    /\ deps \in {Independent, Linear}
    /\ det \in [Nodes -> Flags]
    /\ ExecOnly
    /\ Idle

\* ---------------------------------------------------------- orchestrator
\* WorkflowRuntime.run, new run: a new run store and thread, every node PENDING,
\* and the input checkpoint of graph.invoke
StartFresh ==
    /\ pc = "idle"
    /\ attempt < MaxAttempts
    /\ LET st == [InitialState EXCEPT !.statuses = [n \in Nodes |-> "PENDING"]]
           store == NewRunStore(meta.threadId)
       IN /\ meta' = [store EXCEPT !.nodes = SetStatusAll(store.nodes, Nodes, "PENDING", now)]
          /\ state' = st
          /\ ckpt' = [has |-> TRUE, values |-> st]
    /\ pc' = "router"
    /\ cur' = 0
    /\ isResume' = FALSE
    /\ atStart' = [NoSnapshot EXCEPT !.nodes = meta.nodes]
    /\ attempt' = attempt + 1
    /\ now' = now + 1
    /\ thrown' = "none"
    /\ stuck' = {}
    /\ spawned' = [n \in Nodes |-> 0]
    /\ dispatched' = [n \in Nodes |-> 0]
    /\ UNCHANGED <<wfVars, cache, items, order, proc>>

\* mutant: only FAILED entries are reset
ResetFailedOnly(S) ==
    [n \in Nodes |-> IF S[n] = "FAILED" THEN "PENDING" ELSE S[n]]

\* mutant: every entry is reset
ResetEveryStatus(S) == [n \in Nodes |-> "PENDING"]

\* mutant: every entry with a terminal status is reset
ResetTerminal(S) ==
    [n \in Nodes |-> IF S[n] \in Terminal THEN "PENDING" ELSE S[n]]

\* resume branch: FAILED and SKIPPED entries of the snapshot become PENDING
ResetStatuses(S) ==
    [n \in Nodes |-> IF S[n] \in {"FAILED", "SKIPPED"} THEN "PENDING" ELSE S[n]]

\* mutant: the resume writes PENDING to the record of every node
ResetIdsAll(S) == Nodes

ResetIds(S) == {n \in Nodes : S[n] \in {"FAILED", "SKIPPED"}}

\* mutant: the failure slot of the snapshot is kept
ResumeStateKeepsFailed(values) ==
    [values EXCEPT !.statuses = ResetStatuses(values.statuses)]

\* resume branch: the state passed to graph.invoke
ResumeState(values) ==
    [values EXCEPT !.statuses = ResetStatuses(values.statuses), !.failed = NoFailure]

\* WorkflowRuntime.run, resume of the thread stored in run.json
StartResume ==
    /\ pc = "idle"
    /\ attempt >= 1
    /\ attempt < MaxAttempts
    /\ ckpt.has
    /\ LET st == ResumeState(ckpt.values)
       IN /\ meta' = [meta EXCEPT !.nodes =
                        SetStatusAll(@, ResetIds(ckpt.values.statuses), "PENDING", now)]
          /\ state' = st
          /\ ckpt' = [has |-> TRUE, values |-> st]
    /\ atStart' = [has |-> TRUE, statuses |-> ckpt.values.statuses, nodes |-> meta.nodes]
    /\ pc' = "router"
    /\ cur' = 0
    /\ isResume' = TRUE
    /\ attempt' = attempt + 1
    /\ now' = now + 1
    /\ thrown' = "none"
    /\ stuck' = {}
    /\ spawned' = [n \in Nodes |-> 0]
    /\ dispatched' = [n \in Nodes |-> 0]
    /\ UNCHANGED <<wfVars, cache, items, order, proc>>

\* WorkflowRuntime.run given a thread id that has no checkpoint, graph.getState
\* answering with empty values: the state passed to graph.invoke has no vars
\* and no statuses, and no status is written to the run store
StartResumeNoSnapshot ==
    /\ pc = "idle"
    /\ attempt < MaxAttempts
    /\ ~ckpt.has
    /\ meta' = NewRunStore(meta.threadId)
    /\ state' = ChannelDefaults
    /\ ckpt' = [has |-> TRUE, values |-> ChannelDefaults]
    /\ atStart' = [NoSnapshot EXCEPT !.nodes = meta.nodes]
    /\ pc' = "router"
    /\ cur' = 0
    /\ isResume' = TRUE
    /\ attempt' = attempt + 1
    /\ now' = now + 1
    /\ thrown' = "none"
    /\ stuck' = {}
    /\ spawned' = [n \in Nodes |-> 0]
    /\ dispatched' = [n \in Nodes |-> 0]
    /\ UNCHANGED <<wfVars, cache, items, order, proc>>

\* WorkflowRuntime.run given a thread id that has no checkpoint, graph.getState
\* answering without values: graph.invoke(null) has no input to start from and
\* throws, and the catch marks the run failed
StartResumeEmptyInput ==
    /\ pc = "idle"
    /\ attempt < MaxAttempts
    /\ ~ckpt.has
    /\ meta' = Complete(NewRunStore(meta.threadId), "failed", now)
    /\ state' = ChannelDefaults
    /\ atStart' = [NoSnapshot EXCEPT !.nodes = meta.nodes]
    /\ isResume' = TRUE
    /\ attempt' = attempt + 1
    /\ now' = now + 1
    /\ thrown' = "empty input"
    /\ stuck' = {}
    /\ spawned' = [n \in Nodes |-> 0]
    /\ dispatched' = [n \in Nodes |-> 0]
    /\ UNCHANGED <<wfVars, pc, cur, ckpt, cache, items, order, proc>>

\* one scheduler tick: the router node and the conditional edge after it. A
\* deadlock error fails the router task, so its update is not checkpointed.
RouterTick ==
    /\ pc = "router"
    /\ LET st == RouterUpdate(state)
           to == Route(st)
       IN /\ state' = st
          /\ meta' = [meta EXCEPT !.nodes =
                        SetStatusAll(@, RouterSkipped(state.statuses), "SKIPPED", now)]
          /\ pc' = to
          /\ cur' = IF to = "node" THEN st.next[1] ELSE 0
          /\ ckpt' = IF to = "deadlock" THEN ckpt ELSE [has |-> TRUE, values |-> st]
          /\ stuck' = IF to = "deadlock" THEN pendingNodes(st) ELSE stuck
    /\ now' = now + 1
    /\ UNCHANGED <<wfVars, cache, attempt, isResume, thrown, spawned, dispatched, atStart,
                   items, order, proc>>

\* createNodeHandler, up to the start of the step: the node is RUNNING in the
\* store; runMap has resolved its collection and queued one call per item
NodeBegin ==
    /\ pc = "node"
    /\ meta' = [meta EXCEPT !.nodes = SetNodeStatus(@, cur, "RUNNING", now)]
    /\ dispatched' = [dispatched EXCEPT ![cur] = @ + 1]
    /\ pc' = "running"
    /\ now' = now + 1
    /\ items' = IF kind[cur] = "map" THEN QueuedItems ELSE items
    /\ order' = IF kind[cur] = "map" THEN <<>> ELSE order
    /\ UNCHANGED proc
    /\ UNCHANGED <<wfVars, cur, state, ckpt, cache, attempt, isResume, thrown, stuck,
                   spawned, atStart>>

\* mutant: the outputs channel is replaced by the update instead of merged
NodeSucceedsReplacing(n, output) ==
    /\ meta' = [meta EXCEPT !.nodes =
                  SetNodeStatus(SetNodeOutput(@, n, output), n, FinalStatus(output), now)]
    /\ state' = [state EXCEPT !.outputs = [k \in Nodes |-> IF k = n THEN output ELSE NoOutput],
                              !.statuses[n] = FinalStatus(output)]

\* createNodeHandler, success path: output and status saved and returned; the
\* reducers of the outputs and statuses channels merge the update
NodeSucceeds(n, output) ==
    /\ meta' = [meta EXCEPT !.nodes =
                  SetNodeStatus(SetNodeOutput(@, n, output), n, FinalStatus(output), now)]
    /\ state' = [state EXCEPT !.outputs[n] = output, !.statuses[n] = FinalStatus(output)]

\* mutant: the catch path leaves the failure slot as it is
NodeFailsNoSlot(n, error) ==
    /\ meta' = [meta EXCEPT !.nodes = SetNodeStatus(SetNodeError(@, n, error), n, "FAILED", now)]
    /\ state' = [state EXCEPT !.statuses[n] = "FAILED"]

\* mutant: the catch path returns what the step had printed as an output
NodeFailsWithOutput(n, error) ==
    /\ meta' = [meta EXCEPT !.nodes = SetNodeStatus(SetNodeError(@, n, error), n, "FAILED", now)]
    /\ state' = [state EXCEPT !.statuses[n] = "FAILED",
                              !.outputs[n] = [NoOutput EXCEPT !.result = <<now>>],
                              !.failed = [nodeId |-> n, error |-> error]]

\* createNodeHandler, catch path: error and FAILED saved, failure slot written
NodeFails(n, error) ==
    /\ meta' = [meta EXCEPT !.nodes = SetNodeStatus(SetNodeError(@, n, error), n, "FAILED", now)]
    /\ state' = [state EXCEPT !.statuses[n] = "FAILED",
                              !.failed = [nodeId |-> n, error |-> error]]

\* runExec served from the cache: no process is spawned
NodeCached ==
    /\ pc = "running"
    /\ StepKind(cur) = "exec"
    /\ CacheEnabled(cur)
    /\ cache[KeyOf(cur)] # NoOutput
    /\ NodeSucceeds(cur, CacheHit(cache[KeyOf(cur)], KeyOf(cur)))
    /\ UNCHANGED <<cache, spawned, items, order, proc>>

\* what a spawned command prints: every execution prints something of its own
Stdout == <<now>>

\* runExec spawning the command, which exits 0
NodeExecOk ==
    /\ pc = "running"
    /\ StepKind(cur) = "exec"
    /\ ~(CacheEnabled(cur) /\ cache[KeyOf(cur)] # NoOutput)
    /\ NodeSucceeds(cur, ExecOutput(cur, Stdout))
    /\ cache' = CachePut(cache, cur, ExecOutput(cur, Stdout))
    /\ spawned' = [spawned EXCEPT ![cur] = @ + 1]
    /\ UNCHANGED <<items, order, proc>>

\* runExec spawning the command, which exits non-zero
NodeExecFails ==
    /\ pc = "running"
    /\ StepKind(cur) = "exec"
    /\ ~(CacheEnabled(cur) /\ cache[KeyOf(cur)] # NoOutput)
    /\ NodeFails(cur, "exec failed")
    /\ spawned' = [spawned EXCEPT ![cur] = @ + 1]
    /\ UNCHANGED <<cache, items, order, proc>>

\* the handler returns; its update is checkpointed and the graph goes back to the router
NodeReturns ==
    /\ ckpt' = [has |-> TRUE, values |-> state']
    /\ pc' = "router"
    /\ now' = now + 1
    /\ UNCHANGED <<wfVars, cur, attempt, isResume, thrown, stuck, dispatched, atStart>>

NodeEnd == (NodeCached \/ NodeExecOk \/ NodeExecFails) /\ NodeReturns

\* every variable but proc
AllButProc == <<wfVars, pc, cur, state, ckpt, meta, cache, now, attempt, isResume, thrown,
                stuck, spawned, dispatched, atStart, items, order>>

\* runExec on a cache miss: the command is spawned, the timer is armed if the
\* node declares a positive timeout, and the handler awaits the promise
ExecSpawn ==
    /\ pc = "running"
    /\ StepKind(cur) = "exec"
    /\ ~(CacheEnabled(cur) /\ cache[KeyOf(cur)] # NoOutput)
    /\ pc' = "awaiting"
    /\ proc' = [proc EXCEPT ![cur] =
                  [NoProc EXCEPT !.child = "alive", !.promise = "pending",
                                 !.timer = IF timeout[cur] > 0 THEN "armed" ELSE "none"]]
    /\ spawned' = [spawned EXCEPT ![cur] = @ + 1]
    /\ UNCHANGED <<wfVars, cur, state, ckpt, meta, cache, now, attempt, isResume, thrown,
                   stuck, dispatched, atStart, items, order>>

\* runExec after the promise resolved with the exit code: a non-zero code and a
\* missing declared file throw, otherwise the output is stored and returned
ExecAfterWait(n, code, produced) ==
    /\ IF Verified(code, produced)
       THEN /\ NodeSucceeds(n, ExecOutput(n, Stdout))
            /\ cache' = CachePut(cache, n, ExecOutput(n, Stdout))
       ELSE /\ NodeFails(n, IF code # 0 THEN "exec failed" ELSE "file not produced")
            /\ cache' = cache
    /\ NodeReturns
    /\ UNCHANGED <<spawned, items, order>>

\* runExec after the promise rejected: the error goes to the handler's catch
ExecRejected(n, error) ==
    /\ NodeFails(n, error)
    /\ NodeReturns
    /\ UNCHANGED <<cache, spawned, items, order>>

\* the timer callback: SIGKILL to the child and reject with the timeout error
TimerFires(n) ==
    /\ proc[n].timer = "armed"
    /\ LET p == Settle(proc[n].promise, "timeout")
       IN /\ proc' = [proc EXCEPT ![n].timer = "fired",
                                  ![n].child = IF @ = "alive" THEN "killed" ELSE @,
                                  ![n].promise = p]
          /\ IF p # proc[n].promise
             THEN ExecRejected(n, "exec timeout")
             ELSE UNCHANGED AllButProc

\* the error event of the child: reject; the timer is left as it is
ChildError(n) ==
    /\ proc[n].child = "alive"
    /\ LET p == Settle(proc[n].promise, "error")
       IN /\ proc' = [proc EXCEPT ![n].child = "errored", ![n].promise = p]
          /\ IF p # proc[n].promise
             THEN ExecRejected(n, "spawn error")
             ELSE UNCHANGED AllButProc

\* the close event of the child: the timer is cleared and the promise resolved
\* with the exit code; the declared files are looked for only when runExec
\* goes on with exit code 0
ChildCloses(n, code, produced) ==
    /\ proc[n].child \in {"alive", "killed", "errored"}
    /\ code \in ExitCodes(proc[n].child)
    /\ produced => (code = 0 /\ proc[n].promise = "pending")
    /\ LET p == Settle(proc[n].promise, "resolved")
       IN /\ proc' = [proc EXCEPT ![n] =
                        [child |-> "closed",
                         timer |-> IF @.timer = "armed" THEN "cleared" ELSE @.timer,
                         promise |-> p, code |-> code, files |-> produced]]
          /\ IF p # proc[n].promise
             THEN ExecAfterWait(n, code, produced)
             ELSE UNCHANGED AllButProc

\* runExec returning the cached output
CachedEnd == NodeCached /\ NodeReturns

\* runTask served from the cache: the agent is not run
TaskCached ==
    /\ pc = "running"
    /\ StepKind(cur) = "task"
    /\ agent[cur] \in Registry
    /\ TaskCacheEnabled(cur)
    /\ cache[KeyOf(cur)] # NoOutput
    /\ NodeSucceeds(cur, CacheHit(cache[KeyOf(cur)], KeyOf(cur)))
    /\ UNCHANGED <<cache, spawned, items, order, proc>>

\* runTask, output of an agent run
TaskOutput(n, r) == [result |-> r, artifacts |-> <<n>>, hash |-> KeyOf(n), cached |-> FALSE]

\* runTask running the agent, which returns
TaskRunOk ==
    /\ pc = "running"
    /\ StepKind(cur) = "task"
    /\ agent[cur] \in Registry
    /\ ~(TaskCacheEnabled(cur) /\ cache[KeyOf(cur)] # NoOutput)
    /\ NodeSucceeds(cur, TaskOutput(cur, Stdout))
    /\ cache' = IF TaskCacheEnabled(cur)
                THEN [cache EXCEPT ![KeyOf(cur)] = TaskOutput(cur, Stdout)]
                ELSE cache
    /\ spawned' = [spawned EXCEPT ![cur] = @ + 1]
    /\ UNCHANGED <<items, order, proc>>

\* runTask running the agent, which throws
TaskRunFails ==
    /\ pc = "running"
    /\ StepKind(cur) = "task"
    /\ agent[cur] \in Registry
    /\ ~(TaskCacheEnabled(cur) /\ cache[KeyOf(cur)] # NoOutput)
    /\ NodeFails(cur, "agent failed")
    /\ spawned' = [spawned EXCEPT ![cur] = @ + 1]
    /\ UNCHANGED <<cache, items, order, proc>>

\* createNodeHandler: the agent of the task is not in the registry
TaskNoAgent ==
    /\ pc = "running"
    /\ StepKind(cur) = "task"
    /\ agent[cur] \notin Registry
    /\ NodeFails(cur, "agent not found")
    /\ UNCHANGED <<cache, spawned, items, order, proc>>

TaskEnd == (TaskCached \/ TaskRunOk \/ TaskRunFails \/ TaskNoAgent) /\ NodeReturns

\* the handler of the map node is waiting for Promise.all
Mapping == pc = "running" /\ kind[cur] = "map"

\* the error of the first rejected item: with a task body that names an agent
\* not in the registry every call throws the same error before runTask
Rejection ==
    IF body[cur] = "task" /\ agent[cur] \notin Registry
    THEN "agent not found"
    ELSE "item failed"

\* mutant: runMap waits for every item and returns whatever results there are
MapSettlesPartial(its) ==
    IF Mapping /\ \A i \in Indices : its[i].st \in {"done", "failed"}
    THEN NodeSucceeds(cur, MapOutput(its)) /\ NodeReturns
    ELSE UNCHANGED <<wfVars, pc, cur, state, ckpt, meta, now, attempt, isResume, thrown,
                     stuck, dispatched, atStart>>

\* Promise.all after an item has settled: the first rejection makes runMap throw
\* into the handler's catch; the last fulfilment makes it return the output;
\* items that settle after the handler has returned change nothing but the
\* cache, and no item event writes a time stamp
MapSettles(its) ==
    IF Mapping /\ \E i \in Indices : its[i].st = "failed"
    THEN NodeFails(cur, Rejection) /\ NodeReturns
    ELSE IF Mapping /\ \A i \in Indices : its[i].st = "done"
    THEN NodeSucceeds(cur, MapOutput(its)) /\ NodeReturns
    ELSE UNCHANGED <<wfVars, pc, cur, state, ckpt, meta, now, attempt, isResume, thrown,
                     stuck, dispatched, atStart>>

\* runMap over an empty collection
MapNoItems ==
    /\ Mapping
    /\ Len(over) = 0
    /\ MapSettles(items)
    /\ UNCHANGED <<cache, spawned, items, order, proc>>

\* mutant: the limiter lets every call start
LimiterAlwaysFree(its) == TRUE

\* whether the body of a map node reads and writes the cache
BodyCacheEnabled(n) == IF body[n] = "task" THEN TaskCacheEnabled(n) ELSE CacheEnabled(n)

\* pLimit: a queued call starts while fewer than the ceiling are running
LimiterFree(its) == Cardinality({j \in Indices : its[j].st = "active"}) < MapConcurrency

\* the limiter starts the call of item i: runExec looks its key up and either
\* returns the cached result or spawns the command
ItemStart(i) ==
    /\ i \in Indices
    /\ items[i].st = "queued"
    /\ LimiterFree(items)
    /\ body[Owner] = "task" => agent[Owner] \in Registry
    /\ LET key == ItemKey(over[i])
       IN IF BodyCacheEnabled(Owner) /\ cache[key] # NoOutput
          THEN /\ items' = [items EXCEPT ![i] =
                              [st |-> "done", res |-> CacheHit(cache[key], key).result]]
               /\ order' = Append(order, i)
               /\ UNCHANGED spawned
          ELSE /\ items' = [items EXCEPT ![i].st = "active"]
               /\ spawned' = [spawned EXCEPT ![Owner] = @ + 1]
               /\ UNCHANGED order
    /\ UNCHANGED <<cache, proc>>
    /\ MapSettles(items')

\* the limiter starts the call of item i, whose task body names an agent that
\* is not registered: the call throws before runTask
ItemNoAgent(i) ==
    /\ i \in Indices
    /\ items[i].st = "queued"
    /\ LimiterFree(items)
    /\ body[Owner] = "task"
    /\ agent[Owner] \notin Registry
    /\ items' = [items EXCEPT ![i].st = "failed"]
    /\ UNCHANGED <<cache, spawned, order, proc>>
    /\ MapSettles(items')

\* the command or the agent of item i ends well: runExec or runTask stores and
\* returns its output
ItemExitOk(i) ==
    /\ i \in Indices
    /\ items[i].st = "active"
    /\ LET out == ItemOutput(over[i])
       IN /\ items' = [items EXCEPT ![i] = [st |-> "done", res |-> out.result]]
          /\ cache' = IF BodyCacheEnabled(Owner) THEN [cache EXCEPT ![out.hash] = out] ELSE cache
    /\ order' = Append(order, i)
    /\ UNCHANGED <<spawned, proc>>
    /\ MapSettles(items')

\* the command of item i exits non-zero or its agent throws
ItemExitFails(i) ==
    /\ i \in Indices
    /\ items[i].st = "active"
    /\ items' = [items EXCEPT ![i].st = "failed"]
    /\ UNCHANGED <<cache, spawned, order, proc>>
    /\ MapSettles(items')

\* mutant: an error thrown by graph.invoke is not caught
OutcomeUncaught(st, at) ==
    IF st.failed # NoFailure THEN "failed"
    ELSE IF \E n \in Nodes : st.statuses[n] = "FAILED" THEN "failed"
    ELSE "none"

\* WorkflowRuntime.run after graph.invoke: the outcome of the attempt
Outcome(st, at) ==
    IF at = "deadlock" THEN "deadlock"
    ELSE IF st.failed # NoFailure THEN "failed"
    ELSE IF \E n \in Nodes : st.statuses[n] = "FAILED" THEN "failed"
    ELSE "none"

Finish ==
    /\ pc \in {"end", "deadlock"}
    /\ thrown' = Outcome(state, pc)
    /\ meta' = Complete(meta, IF thrown' = "none" THEN "success" ELSE "failed", now)
    /\ pc' = "idle"
    /\ now' = now + 1
    /\ items' = NoItems
    /\ order' = <<>>
    /\ proc' = NoProcs
    /\ UNCHANGED <<wfVars, cur, state, ckpt, cache, attempt, isResume, stuck, spawned,
                   dispatched, atStart>>

Next == StartFresh \/ StartResume \/ RouterTick \/ NodeBegin \/ NodeEnd \/ Finish

Spec == Init /\ [][Next]_vars

CacheSpec == CacheInit /\ [][Next]_vars

\* runs that may also be started as a resume of a thread without checkpoint
ResumeNext == Next \/ StartResumeNoSnapshot \/ StartResumeEmptyInput

ResumeSpec == Init /\ [][ResumeNext]_vars

\* workflows whose first node fans out over a collection and whose other nodes
\* are exec nodes that depend on it directly or in a chain
Star == [n \in Nodes |-> IF n = 1 THEN {} ELSE {1}]

MapInit ==
    /\ deps \in {Star, Linear}
    /\ det \in {d \in [Nodes -> Flags] : d[1] # "true" /\ \A n \in Nodes \ {1} : d[n] = "absent"}
    /\ kind = [n \in Nodes |-> IF n = 1 THEN "map" ELSE "exec"]
    /\ over \in Collections
    /\ timeout = NoTimeouts
    /\ PlainSteps
    /\ Idle

MapNext ==
    \/ Next
    \/ MapNoItems
    \/ \E i \in 1..Slots : ItemStart(i) \/ ItemExitOk(i) \/ ItemExitFails(i)

MapSpec == MapInit /\ [][MapNext]_vars

\* workflows of command and delegated-task nodes, every combination of
\* determinism flags
TaskInit ==
    /\ deps \in {Independent, Linear}
    /\ det \in [Nodes -> Flags]
    /\ kind \in {k \in [Nodes -> {"exec", "task"}] : k[1] = "task"}
    /\ over = <<>>
    /\ timeout = NoTimeouts
    /\ agent \in {KnownAgents, GhostAgent}
    /\ body = ExecBodies
    /\ Idle

TaskNext == Next \/ TaskEnd

TaskSpec == TaskInit /\ [][TaskNext]_vars

\* workflows of command nodes, the first one with or without a timeout, caching
\* by default
ExecInit ==
    /\ deps \in {Independent, Linear}
    /\ det = [n \in Nodes |-> "absent"]
    /\ kind = [n \in Nodes |-> "exec"]
    /\ over = <<>>
    /\ timeout \in {NoTimeouts, [n \in Nodes |-> IF n = 1 THEN 1 ELSE 0]}
    /\ PlainSteps
    /\ Idle

\* the orchestrator with the command of an exec node as a process of its own
ExecNext ==
    \/ StartFresh \/ StartResume \/ RouterTick \/ NodeBegin \/ CachedEnd \/ ExecSpawn
    \/ \E n \in Nodes :
          \/ TimerFires(n)
          \/ ChildError(n)
          \/ \E code \in {0, 1, -1}, produced \in BOOLEAN : ChildCloses(n, code, produced)
    \/ Finish

ExecSpec == ExecInit /\ [][ExecNext]_vars

\* workflows whose first node is a task, a fan-out with a task body or a fan-in
\* with a task body, naming a registered agent or not, and whose other nodes
\* are commands that depend on it directly or in a chain
AgentInit ==
    /\ deps \in {Star, Linear}
    /\ det \in {d \in [Nodes -> Flags] : \A n \in Nodes \ {1} : d[n] = "absent"}
    /\ kind \in {[n \in Nodes |-> IF n = 1 THEN k ELSE "exec"] : k \in {"task", "map", "reduce"}}
    /\ over \in IF kind[1] = "map" THEN Collections ELSE {<<>>}
    /\ timeout = NoTimeouts
    /\ agent \in {KnownAgents, GhostAgent}
    /\ body = [ExecBodies EXCEPT ![1] = "task"]
    /\ Idle

AgentNext == MapNext \/ TaskEnd \/ \E i \in 1..Slots : ItemNoAgent(i)

AgentSpec == AgentInit /\ [][AgentNext]_vars

\* --------------------------------------------------------------- cache key
\* values of a field of a node spec: 0 absent, 1 the empty or default value
\* ([] for args, {} for env and inputs, process.cwd() for cwd), 2.. other values
Fields == 0..MaxField

\* fully resolved exec specs and task specs
NodeSpecs ==
    [kind : {"exec"}, command : 1..MaxField, agent : {0}, args : Fields, cwd : Fields,
     env : Fields, prompt : {0}, inputs : {0}, produces : Fields]
    \cup
    [kind : {"task"}, command : {0}, agent : 1..MaxField, args : {0}, cwd : Fields,
     env : Fields, prompt : 1..MaxField, inputs : Fields, produces : {0}]

\* x || d : the default replaces an absent value
OrElse(x, d) == IF x = 0 THEN d ELSE x

\* hashInputs: the digest of the serialized payload; SHA-256 is taken to be
\* free of collisions, so the digest stands for the payload
hashInputs(payload) == payload

\* runExec: the key of an exec spec
ExecKey(sp) ==
    hashInputs(<<"exec", sp.command, OrElse(sp.args, 1), OrElse(sp.cwd, 1),
                 OrElse(sp.env, 1), sp.produces>>)

\* runTask: the key of a task spec
TaskKey(sp) ==
    hashInputs(<<"task", sp.agent, sp.prompt, OrElse(sp.inputs, 1), OrElse(sp.env, 1)>>)

CacheKey(sp) == IF sp.kind = "exec" THEN ExecKey(sp) ELSE TaskKey(sp)

\* what a spec makes its step run with: spawn and agent.run apply the same
\* defaults as the keys do
Effective(sp) ==
    [sp EXCEPT !.args = OrElse(@, 1), !.cwd = OrElse(@, 1), !.env = OrElse(@, 1),
               !.inputs = OrElse(@, 1)]

\* two node specs, no run
KeyInit ==
    /\ specs \in NodeSpecs \X NodeSpecs
    /\ keys = <<>>
    /\ deps = Independent
    /\ det = [n \in Nodes |-> "absent"]
    /\ ExecOnly
    /\ IdleRun

\* the keys of the two specs are computed
HashSpecs ==
    /\ keys = <<>>
    /\ specs # <<>>
    /\ keys' = <<CacheKey(specs[1]), CacheKey(specs[2])>>
    /\ UNCHANGED <<deps, det, kind, over, timeout, agent, body, specs, pc, cur, state, ckpt,
                   meta, cache, now, attempt, isResume, thrown, stuck, spawned, dispatched,
                   atStart, items, order, proc>>

KeyNext == HashSpecs

KeySpec == KeyInit /\ [][KeyNext]_vars

\* a fan-out over one item more than the ceiling (and over nothing), the map
\* body not cached
LimitInit ==
    /\ deps = Star
    /\ det = [n \in Nodes |-> IF n = 1 THEN "false" ELSE "absent"]
    /\ kind = [n \in Nodes |-> IF n = 1 THEN "map" ELSE "exec"]
    /\ over \in {<<>>, [i \in 1..(MapConcurrency + 1) |-> 1]}
    /\ timeout = NoTimeouts
    /\ PlainSteps
    /\ Idle

LimitSpec == LimitInit /\ [][MapNext]_vars

\* runs in which no command fails, over acyclic workflows whose dependency ids
\* all name nodes; the control loop keeps going until graph.invoke returns
NodeEndOk == (NodeCached \/ NodeExecOk) /\ NodeReturns

LiveInit ==
    /\ deps \in {dp \in Workflows : Acyclic(dp) /\ ValidDeps(dp)}
    /\ det = [n \in Nodes |-> "absent"]
    /\ ExecOnly
    /\ Idle

LiveNext == StartFresh \/ StartResume \/ RouterTick \/ NodeBegin \/ NodeEndOk \/ Finish

Progress == RouterTick \/ NodeBegin \/ NodeEndOk \/ Finish

LiveSpec == LiveInit /\ [][LiveNext]_vars /\ WF_vars(Progress)

\* every step of an attempt once it has been started
Steps == RouterTick \/ NodeBegin \/ NodeEnd \/ Finish

\* every workflow shape, failing commands included; the control loop goes on
\* and every command ends
TermSpec == Init /\ [][Next]_vars /\ WF_vars(Steps)

\* ================================================================ claims
AttemptEnded == pc = "idle" /\ attempt >= 1

\* C1 (as claimed): when an attempt over an acyclic workflow ends, every node
\* that depends, at any depth, on a FAILED node is SKIPPED in the run state and
\* in the run store.
C1_TransitiveSkip ==
    (AttemptEnded /\ Acyclic(deps)) =>
        \A a \in Nodes : \A d \in Nodes :
            (state.statuses[a] = "FAILED" /\ a \in Ancestors(deps, d))
                => (state.statuses[d] = "SKIPPED" /\ meta.nodes[d].status = "SKIPPED")

\* C2: a node is dispatched, and runs, only while every id of its dependency
\* list names a node that is SUCCESS or CACHED, in fresh and resumed attempts.
C2_DispatchAfterDeps ==
    (pc \in {"node", "running"}) =>
        \A d \in deps[cur] :
            /\ d \in Nodes
            /\ state.statuses[d] \in Completed
            /\ meta.nodes[d].status \in Completed

\* C2 witness: a node with a dependency is dispatched in a resumed attempt
C2_Witness ==
    pc = "node" /\ isResume /\ deps[cur] # {} /\ Cardinality(deps[cur]) = 2

\* C3 witness: a run over a workflow in which a dependency is declared after
\* its dependent has ended with overall success
C3_Witness ==
    /\ AttemptEnded /\ meta.status = "success"
    /\ \E n \in Nodes : \E d \in deps[n] : d > n
    /\ \A n \in Nodes : state.statuses[n] \in Completed

\* C3: over an acyclic workflow whose dependency ids all name nodes, an attempt
\* in which no execution fails ends with every node SUCCESS or CACHED and with
\* overall success.
C3_AllComplete ==
    (pc # "idle") ~>
        (/\ pc = "idle" /\ meta.status = "success" /\ thrown = "none"
         /\ \A n \in Nodes : /\ state.statuses[n] \in Completed
                             /\ meta.nodes[n].status \in Completed)

\* C4 witness: an attempt over a workflow with a dependency id that names no
\* node, or with a dependency cycle, has ended with the deadlock error
C4_Witness ==
    /\ AttemptEnded /\ thrown = "deadlock"
    /\ (~ValidDeps(deps) \/ ~Acyclic(deps))

\* C4: an empty frontier with a node still PENDING (or without status) ends the
\* attempt at that tick with the deadlock error, which lists exactly those
\* nodes; none of them is dispatched and the persisted status is failed.
C4_Deadlock ==
    /\ (pc \in {"node", "running", "end"})
          => ~(Len(state.next) = 0 /\ pendingNodes(state) # {})
    /\ (pc = "deadlock")
          => (Len(state.next) = 0 /\ stuck # {} /\ stuck = pendingNodes(state))
    /\ (AttemptEnded /\ thrown = "deadlock")
          => /\ meta.status = "failed"
             /\ stuck # {} /\ stuck = pendingNodes(state)
             /\ \A n \in stuck : dispatched[n] = 0
    /\ (AttemptEnded /\ thrown # "deadlock") => pendingNodes(state) = {}

\* C5 witness: the linear workflow was resumed after node 2 had failed, and the
\* resumed attempt has ended with overall success
C5_Witness ==
    /\ deps = Linear /\ AttemptEnded /\ attempt = 2 /\ isResume
    /\ atStart.statuses[2] = "FAILED" /\ atStart.nodes[3].status = "SKIPPED"
    /\ meta.status = "success" /\ dispatched[2] = 1 /\ dispatched[3] = 1

\* C5: on the linear workflow 1 -> 2 -> 3, a first attempt in which node 2
\* fails ends with 1 SUCCESS, 2 FAILED, 3 SKIPPED and overall failed; a resume
\* of it in which no node fails ends with 1, 2 and 3 SUCCESS and overall
\* success, node 1 not having been dispatched and its record being unchanged.
C5_ResumeScenario ==
    /\ (deps = Linear /\ AttemptEnded /\ attempt = 1 /\ meta.nodes[2].status = "FAILED")
          => /\ meta.nodes[1].status = "SUCCESS" /\ state.statuses[1] = "SUCCESS"
             /\ state.statuses[2] = "FAILED"
             /\ meta.nodes[3].status = "SKIPPED" /\ state.statuses[3] = "SKIPPED"
             /\ meta.status = "failed" /\ thrown # "none"
    /\ (/\ deps = Linear /\ AttemptEnded /\ attempt = 2 /\ isResume
        /\ atStart.statuses[2] = "FAILED"
        /\ \A n \in Nodes : meta.nodes[n].status # "FAILED")
          => /\ \A n \in 1..3 : /\ meta.nodes[n].status = "SUCCESS"
                                /\ state.statuses[n] = "SUCCESS"
             /\ meta.status = "success" /\ thrown = "none"
             /\ dispatched[1] = 0 /\ spawned[1] = 0
             /\ meta.nodes[1] = atStart.nodes[1]

\* C6 witness: a resumed attempt has dispatched a node while another node was
\* SUCCESS in the snapshot
C6_Witness ==
    /\ isResume /\ AttemptEnded
    /\ \E n \in Nodes : atStart.statuses[n] \in Completed
    /\ \E m \in Nodes : dispatched[m] > 0

\* C6: throughout a resumed attempt a node that was SUCCESS or CACHED in the
\* snapshot is not dispatched, and its status, output, start time, end time and
\* duration in the run store are those it had before the attempt.
C6_ResumeFrame ==
    isResume =>
        \A n \in Nodes :
            atStart.statuses[n] \in Completed
                => /\ dispatched[n] = 0
                   /\ spawned[n] = 0
                   /\ state.statuses[n] = atStart.statuses[n]
                   /\ meta.nodes[n] = atStart.nodes[n]

\* C7 witness: a resume has just loaded a snapshot with a FAILED and a SKIPPED node
C7_Witness ==
    /\ isResume /\ pc = "router" /\ \A n \in Nodes : dispatched[n] = 0
    /\ state = ckpt.values
    /\ \E n \in Nodes : atStart.statuses[n] = "FAILED" /\ state.statuses[n] = "PENDING"
    /\ \E n \in Nodes : atStart.statuses[n] = "SKIPPED" /\ state.statuses[n] = "PENDING"

\* C7: the step that starts a resumed attempt leaves every node that was FAILED
\* or SKIPPED in the loaded snapshot PENDING in the run state and in the run
\* store, every other node with its snapshot status and its stored record, and
\* the failure slot empty.
C7_ResumeStart ==
    [][(pc = "idle" /\ pc' = "router" /\ isResume')
          => /\ state'.failed = NoFailure
             /\ \A n \in Nodes :
                  IF ckpt.values.statuses[n] \in {"FAILED", "SKIPPED"}
                  THEN state'.statuses[n] = "PENDING" /\ meta'.nodes[n].status = "PENDING"
                  ELSE /\ state'.statuses[n] = ckpt.values.statuses[n]
                       /\ meta'.nodes[n] = meta.nodes[n]]_vars

\* C8 witness: a node declared deterministic was dispatched and served from the cache
C8_Witness ==
    \E n \in Nodes :
        /\ det[n] = "true" /\ dispatched[n] = 1 /\ spawned[n] = 0
        /\ state.statuses[n] = "CACHED" /\ pc = "router"

\* C8 (as claimed): when the key of a dispatched deterministic node is in the
\* cache, no command is spawned, the node becomes CACHED and the output
\* recorded for it equals the stored cache entry.
C8_OutputIsEntry ==
    [][(pc = "running" /\ det[cur] = "true" /\ cache[KeyOf(cur)] # NoOutput)
          => /\ spawned' = spawned /\ cache' = cache
             /\ state'.statuses[cur] = "CACHED" /\ meta'.nodes[cur].status = "CACHED"
             /\ state'.outputs[cur] = cache[KeyOf(cur)]
             /\ meta'.nodes[cur].output = cache[KeyOf(cur)]]_vars

\* C8 (amended): when the key of a dispatched deterministic node is in the
\* cache, no command is spawned, the cache is left as it is, the node becomes
\* CACHED and the output recorded for it is the stored cache entry with the
\* cached flag set.
C8_CacheHit ==
    [][(pc = "running" /\ det[cur] = "true" /\ cache[KeyOf(cur)] # NoOutput)
          => /\ spawned' = spawned /\ cache' = cache
             /\ state'.statuses[cur] = "CACHED" /\ meta'.nodes[cur].status = "CACHED"
             /\ state'.outputs[cur] = [cache[KeyOf(cur)] EXCEPT !.cached = TRUE]
             /\ meta'.nodes[cur].output = state'.outputs[cur]
             /\ ~cache[KeyOf(cur)].cached]_vars

\* C9 witness: a second fresh run has served from the cache a deterministic
\* node that the run before it executed
C9_Witness ==
    /\ AttemptEnded /\ attempt = 2 /\ ~isResume
    /\ \E n \in Nodes : /\ det[n] = "true" /\ atStart.nodes[n].status = "SUCCESS"
                        /\ meta.nodes[n].status = "CACHED"

\* C9: a deterministic node that a run executed with SUCCESS is, in a later
\* fresh run sharing the cache store, reported CACHED without being executed,
\* with the result and the artifacts the earlier run recorded.
C9_SecondRunCached ==
    (AttemptEnded /\ attempt >= 2 /\ ~isResume) =>
        \A n \in Nodes :
            (det[n] = "true" /\ atStart.nodes[n].status = "SUCCESS" /\ dispatched[n] > 0)
                => /\ meta.nodes[n].status = "CACHED" /\ state.statuses[n] = "CACHED"
                   /\ spawned[n] = 0
                   /\ atStart.nodes[n].output # NoOutput
                   /\ meta.nodes[n].output.result = atStart.nodes[n].output.result
                   /\ meta.nodes[n].output.artifacts = atStart.nodes[n].output.artifacts

\* C10 witness: a resumed attempt that dispatched a node has ended with success
C10_Witness ==
    /\ AttemptEnded /\ isResume /\ meta.status = "success"
    /\ \E n \in Nodes : dispatched[n] > 0

\* C10: when an attempt has ended, the persisted overall status is success
\* exactly if every node is SUCCESS or CACHED; with a FAILED node or after the
\* deadlock error it is failed and the run has thrown an error.
C10_OverallStatus ==
    AttemptEnded =>
        /\ meta.status \in {"success", "failed"}
        /\ (meta.status = "success") <=> (\A n \in Nodes : meta.nodes[n].status \in Completed)
        /\ (meta.status = "success") <=> (\A n \in Nodes : state.statuses[n] \in Completed)
        /\ (meta.status = "failed") <=> (thrown # "none")
        /\ ((\E n \in Nodes : meta.nodes[n].status = "FAILED") \/ stuck # {})
              => (meta.status = "failed" /\ thrown # "none")

\* C11 witness: the fan-out node has succeeded over two different items of
\* which the second completed before the first
C11_Witness ==
    /\ pc = "router" /\ kind[1] = "map" /\ state.statuses[1] = "SUCCESS"
    /\ over = <<1, 2>> /\ order = <<2, 1>>

\* C11: the result array recorded for a fan-out node that succeeded has the
\* length of its collection, and position i holds what the sub-spec returned
\* for item i (the output of the command run for the value of item i, in this
\* run or in the run that cached it), whatever the order of completion.
C11_ResultInOrder ==
    \A n \in Nodes :
        (kind[n] = "map" /\ state.statuses[n] = "SUCCESS")
            => LET res == state.outputs[n].result
               IN /\ Len(res) = Len(over)
                  /\ \A i \in 1..Len(over) :
                        /\ res[i][1] = over[i]
                        /\ res[i][2] \in 1..attempt
                        /\ (dispatched[n] > 0 /\ pc # "idle") => res[i] = items[i].res
                  /\ meta.nodes[n].output = state.outputs[n]
                  /\ meta.nodes[n].status = "SUCCESS"

StatusStep(a, b) ==
    \/ a = b
    \/ a = "PENDING" /\ b \in {"RUNNING", "SKIPPED"}
    \/ a = "RUNNING" /\ b \in {"SUCCESS", "CACHED", "FAILED"}

\* C13 (as claimed): within an attempt the status of each node changes, in the
\* run state and in the run store, only along PENDING -> RUNNING -> {SUCCESS,
\* CACHED, FAILED} or PENDING -> SKIPPED.
C13_StatusMachine ==
    [][(pc # "idle") =>
          \A n \in Nodes :
              /\ StatusStep(state.statuses[n], state'.statuses[n])
              /\ StatusStep(meta.nodes[n].status, meta'.nodes[n].status)]_vars

\* C14 (as claimed): after any sequence of fresh runs and resumes against the
\* run directory, the thread id stored for it is the one the first run
\* generated.
C14_ThreadIdOnce ==
    (attempt >= 1) => meta.threadId = NewRunStore(0).threadId

\* C15 (as claimed): a resume attempt for a thread without snapshot starts the
\* scheduler loop from the initial state of a fresh run: every node PENDING in
\* the run state and in the run store, the workflow variables set, no output,
\* an empty failure slot.
C15_ResumeAsFresh ==
    [][(pc = "idle" /\ ~ckpt.has /\ isResume' /\ attempt' = attempt + 1)
          => /\ pc' = "router"
             /\ state'.vars = WorkflowVars
             /\ \A n \in Nodes : /\ state'.statuses[n] = "PENDING"
                                 /\ meta'.nodes[n].status = "PENDING"
                                 /\ state'.outputs[n] = NoOutput
             /\ state'.failed = NoFailure]_vars

\* C16 witness: a resumed attempt is at a scheduler tick after a node has
\* failed in it, the attempt before having failed as well
C16_Witness ==
    /\ pc = "router" /\ isResume /\ state.failed # NoFailure
    /\ \E n \in Nodes : atStart.statuses[n] = "FAILED"

\* C16: in every state of every attempt, and so at every scheduler tick, the
\* failure slot of the run state is filled exactly if some node is FAILED in
\* the run state, and it then names a FAILED node.
C16_FailureSlot ==
    /\ (state.failed # NoFailure) <=> (\E n \in Nodes : state.statuses[n] = "FAILED")
    /\ (state.failed # NoFailure) => state.statuses[state.failed.nodeId] = "FAILED"
    /\ (ckpt.values.failed # NoFailure)
          <=> (\E n \in Nodes : ckpt.values.statuses[n] = "FAILED")

\* C17 (as claimed): in every state in which a node is FAILED the overall run
\* status is failed.
C17_FailedAtOnce ==
    (\E n \in Nodes : state.statuses[n] = "FAILED") => meta.status = "failed"

\* C17 witness: a node has failed in a fresh run and another node, independent
\* of it, is dispatched afterwards while the run is still running
C17_Witness ==
    /\ pc = "node" /\ ~isResume /\ meta.status = "running"
    /\ \E n \in Nodes : state.statuses[n] = "FAILED"

\* C17 (amended): once a node is FAILED the overall run status is never
\* success; the scheduler loop goes on with the nodes that do not depend on
\* it, and when it stops the run status is failed and the error names a FAILED
\* node; after a deadlock the run status is failed and the error lists the
\* stuck nodes.
C17_FailedAtEnd ==
    /\ (\E n \in Nodes : state.statuses[n] = "FAILED") => meta.status # "success"
    /\ (AttemptEnded /\ \E n \in Nodes : state.statuses[n] = "FAILED")
          => /\ meta.status = "failed"
             /\ thrown \in {"failed", "deadlock"}
             /\ (thrown = "failed") => (/\ state.failed # NoFailure
                                        /\ state.statuses[state.failed.nodeId] = "FAILED")
    /\ (AttemptEnded /\ thrown = "deadlock")
          => (meta.status = "failed" /\ stuck # {} /\ stuck = pendingNodes(state))

\* the nodes that are ready in statuses S
ReadySet(S) ==
    {n \in Nodes : /\ S[n] \in {"NONE", "PENDING"}
                   /\ \A d \in deps[n] : d \in Nodes /\ S[d] \in Completed}

C19_Witness ==
    /\ pc = "end"
    /\ \E n \in Nodes : state.statuses[n] = "FAILED"
    /\ \E n \in Nodes : state.statuses[n] = "SKIPPED"

\* C19: when the conditional edge routes to END, and when an attempt has ended
\* without the deadlock error, every node has a terminal status in the run
\* state and in the run store.
C19_EndOnlyWhenTerminal ==
    (pc = "end" \/ (AttemptEnded /\ thrown \in {"none", "failed"}))
        => \A n \in Nodes : /\ state.statuses[n] \in Terminal
                            /\ meta.nodes[n].status \in Terminal

\* C20 witness: an attempt has ended in which a node failed and another node
\* was dispatched after it
C20_Witness ==
    /\ AttemptEnded
    /\ \E n \in Nodes : \E m \in Nodes :
          /\ state.statuses[n] = "FAILED" /\ dispatched[n] = 1
          /\ dispatched[m] = 1 /\ meta.nodes[m].endTime > meta.nodes[n].endTime

\* C20: within an attempt a node is dispatched at most once and its command is
\* invoked at most once; a node with a terminal status in the run state keeps
\* it, is not in the ready frontier and is not the node dispatched.
C20_NoReevaluation ==
    [][/\ \A n \in Nodes : dispatched'[n] <= 1 /\ spawned'[n] <= 1
       /\ (pc # "idle") =>
             \A n \in Nodes :
                 state.statuses[n] \in Terminal
                     => /\ state'.statuses[n] = state.statuses[n]
                        /\ \A k \in 1..Len(state'.next) : state'.next[k] # n
                        /\ (pc' \in {"node", "running"}) => cur' # n]_vars

\* the run store shows that node n has been executed since the run directory
\* was created: it is RUNNING, or a completion has stamped its end time
HasRun(n) == meta.nodes[n].status = "RUNNING" \/ meta.nodes[n].endTime # -1

\* C21 witness: a resumed attempt has dispatched a node that had run and
\* failed in the attempt before
C21_Witness ==
    /\ isResume /\ pc = "running" /\ atStart.statuses[cur] = "FAILED"
    /\ atStart.nodes[cur].endTime # -1 /\ deps[cur] # {}

\* C21: a node that has been executed is not SKIPPED afterwards, in the run
\* state or in the run store, in the same attempt or in a later resume; in a
\* resumed attempt every dependency of a node that was FAILED in the snapshot
\* is SUCCESS or CACHED.
C21_NeverSkippedAfterRun ==
    \A n \in Nodes :
        /\ HasRun(n) => (state.statuses[n] # "SKIPPED" /\ meta.nodes[n].status # "SKIPPED")
        /\ (isResume /\ atStart.has /\ atStart.statuses[n] = "FAILED")
              => \A d \in deps[n] : d \in Nodes /\ state.statuses[d] \in Completed

\* C22 witness: an attempt has ended in which a node failed, a node depending
\* on it was skipped and a node independent of it was dispatched after the
\* failure
C22_Witness ==
    /\ AttemptEnded
    /\ \E f \in Nodes : \E s \in Nodes : \E u \in Nodes :
          /\ state.statuses[f] = "FAILED" /\ state.statuses[s] = "SKIPPED"
          /\ f \notin Ancestors(deps, u) /\ dispatched[u] = 1
          /\ meta.nodes[u].endTime > meta.nodes[f].endTime

\* C22: a node that is SKIPPED in the run state has a direct or transitive
\* dependency that is FAILED; when the scheduler loop of an attempt over an
\* acyclic workflow with valid dependency ids has stopped, every node none of
\* whose direct or transitive dependencies is FAILED has been executed or was
\* already complete.
C22_OnlyDescendantsSkipped ==
    /\ \A n \in Nodes :
          state.statuses[n] = "SKIPPED"
              => \E a \in Ancestors(deps, n) : state.statuses[a] = "FAILED"
    /\ (pc \in {"end", "deadlock"} /\ Acyclic(deps) /\ ValidDeps(deps))
          => \A n \in Nodes :
                (\A a \in Ancestors(deps, n) : state.statuses[a] # "FAILED")
                    => state.statuses[n] \in {"SUCCESS", "CACHED", "FAILED"}

\* C23 (as claimed): an attempt over an acyclic workflow whose dependency ids
\* all name nodes never ends with the deadlock error.
C23_NoDeadlockIfAcyclic ==
    (AttemptEnded /\ Acyclic(deps) /\ ValidDeps(deps)) => thrown # "deadlock"

\* C24 (as claimed): no step writes a cache entry under a key that already
\* holds one, whether the write comes from a command node or from an item of
\* a fan-out node, and an entry once written is never replaced.
C24_WriteOnce ==
    [][\A k \in Keys :
          /\ (cache[k] # NoOutput) => (cache'[k] = cache[k])
          /\ (/\ pc = "running" /\ kind[cur] = "exec" /\ CacheEnabled(cur)
              /\ k = KeyOf(cur) /\ spawned'[cur] = spawned[cur] + 1
              /\ state'.statuses[cur] = "SUCCESS")
                => cache[k] = NoOutput
          /\ (\E i \in Indices :
                  /\ items[i].st = "active" /\ items'[i].st = "done"
                  /\ CacheEnabled(Owner) /\ k = ItemKey(over[i]))
                => cache[k] = NoOutput]_vars

C26_NoItemAfterTerminal ==
    \A n \in Nodes :
        (kind[n] = "map" /\ state.statuses[n] \in Terminal)
            => \A i \in Indices : items[i].st \notin {"queued", "active"}

C28_HashIffDeterministic ==
    \A n \in Nodes :
        (state.statuses[n] \in Completed)
            => /\ (det[n] = "true") => (state.outputs[n].hash # 0)
               /\ (det[n] = "false") => (state.outputs[n].hash = 0)

\* the message of the error runExec throws for an exit code and the files found
ExecError(code) == IF code # 0 THEN "exec failed" ELSE "file not produced"

\* C29 witness: of two command nodes whose processes have closed, one exited
\* non-zero and the other exited 0 without its declared file; both are FAILED
\* and the cache store is empty
C29_Witness ==
    /\ \E n \in Nodes, k \in Nodes :
          /\ proc[n].child = "closed" /\ proc[n].promise = "resolved" /\ proc[n].code = 1
          /\ proc[k].child = "closed" /\ proc[k].promise = "resolved"
          /\ proc[k].code = 0 /\ ~proc[k].files
          /\ state.statuses[n] = "FAILED" /\ state.statuses[k] = "FAILED"
          /\ meta.nodes[n].error = "exec failed" /\ meta.nodes[k].error = "file not produced"
    /\ \A key \in Keys : cache[key] = NoOutput

\* C29: when the process of a command node closes with a non-zero exit code,
\* or with exit code 0 while a declared file is missing, the node becomes
\* FAILED with the error recorded, no output is recorded for it and the cache
\* store is left as it is; the cache store changes only by the output of a
\* node whose process exited 0 with its declared files present.
C29_FailedUnverified ==
    [][/\ \A n \in Nodes :
            (/\ proc[n].promise = "pending" /\ proc'[n].promise = "resolved"
             /\ ~(proc'[n].code = 0 /\ proc'[n].files))
               => /\ state'.statuses[n] = "FAILED"
                  /\ state'.failed = [nodeId |-> n, error |-> ExecError(proc'[n].code)]
                  /\ state'.outputs[n] = NoOutput
                  /\ meta'.nodes[n].status = "FAILED"
                  /\ meta'.nodes[n].error = ExecError(proc'[n].code)
                  /\ meta'.nodes[n].output = NoOutput
                  /\ cache' = cache
       /\ (cache' # cache)
            => \E n \in Nodes :
                  /\ proc[n].promise = "pending" /\ proc'[n].promise = "resolved"
                  /\ proc'[n].code = 0 /\ proc'[n].files
                  /\ state'.statuses[n] = "SUCCESS"
                  /\ cache' = [cache EXCEPT ![KeyOf(n)] = state'.outputs[n]]]_vars

\* C30 witness: the timer of a command node fired first, the close event came
\* later with exit code 0, and the node is FAILED with the timeout error and
\* nothing cached
C30_Witness ==
    \E n \in Nodes :
        /\ timeout[n] > 0
        /\ proc[n].timer = "fired" /\ proc[n].promise = "timeout"
        /\ proc[n].child = "closed" /\ proc[n].code = 0
        /\ state.statuses[n] = "FAILED" /\ meta.nodes[n].error = "exec timeout"
        /\ cache[KeyOf(n)] = NoOutput

\* C30: for a command node with a positive timeout the promise settles once:
\* a timer that fires before the close event kills the child and fails the
\* node with the timeout error, nothing being cached, and the later close
\* event changes neither the outcome nor the run; a close event that comes
\* first cancels the timer, which never fires afterwards, and the node fails
\* with the exit-code error if the code is non-zero and never with the
\* timeout error.
C30_OneOutcome ==
    [][\A n \in Nodes : (timeout[n] > 0) =>
          /\ (proc[n].promise = "pending" /\ proc'[n].timer = "fired")
                => /\ proc'[n].child = "killed" /\ proc'[n].promise = "timeout"
                   /\ state'.statuses[n] = "FAILED"
                   /\ state'.failed = [nodeId |-> n, error |-> "exec timeout"]
                   /\ meta'.nodes[n].error = "exec timeout"
                   /\ cache' = cache
          /\ (proc[n].promise \notin {"none", "pending"})
                => proc'[n].promise \in {proc[n].promise, "none"}
          /\ (proc[n].promise = "timeout" /\ proc[n].child = "killed"
                                           /\ proc'[n].child = "closed")
                => UNCHANGED <<state, meta, cache, ckpt, pc>>
          /\ (proc[n].promise = "pending" /\ proc'[n].child = "closed")
                => /\ proc'[n].timer = "cleared" /\ proc'[n].promise = "resolved"
                   /\ (proc'[n].code # 0) => state'.failed = [nodeId |-> n, error |-> "exec failed"]
                   /\ (proc'[n].code = 0) => /\ state'.statuses[n] \in {"SUCCESS", "FAILED"}
                                              /\ state'.failed.error # "exec timeout"
          /\ (proc[n].timer = "cleared") => (proc'[n].timer \in {"cleared", "none"})]_vars

\* node n runs a task, as the node itself or as the body of a fan-out or of a
\* fan-in, and the task names the agent that is not registered
NamesGhost(n) ==
    /\ agent[n] = "ghost"
    /\ kind[n] = "task" \/ (kind[n] \in {"map", "reduce"} /\ body[n] = "task")

\* the handler of node n has been called in this attempt and has returned
Returned(n) == dispatched[n] > 0 /\ ~(pc \in {"node", "running"} /\ cur = n)

C32_Witness ==
    /\ attempt = 2 /\ isResume
    /\ \E n \in Nodes, k \in Nodes :
          /\ atStart.has /\ atStart.statuses[n] = "SUCCESS" /\ dispatched[n] = 0
          /\ state.outputs[n] # NoOutput
          /\ atStart.statuses[k] = "FAILED" /\ dispatched[k] = 1
          /\ state.outputs[k] # NoOutput

\* C32: within a run and across its resumes, an output recorded in the run
\* state is never changed or removed, and the entry of node n changes only in
\* the step in which the handler of n returns; only the start of a new run
\* begins with an empty map.
C32_OutputsAppendOnly ==
    [][(isResume' \/ attempt' = attempt) =>
          \A n \in Nodes :
              /\ (state.outputs[n] # NoOutput) => (state'.outputs[n] = state.outputs[n])
              /\ (state'.outputs[n] # state.outputs[n])
                    => (pc \in {"running", "awaiting"} /\ cur = n /\ pc' = "router")]_vars

Entries(next) == {next[i] : i \in 1..Len(next)}

\* C34 witness: the first tick of a resumed attempt has replaced the frontier
\* of the snapshot, which held a node that is now completed, and a node has
\* been routed to
C34_Witness ==
    /\ pc = "node" /\ attempt = 2 /\ isResume /\ atStart.has
    /\ \A n \in Nodes : dispatched[n] = 0
    /\ \E n \in Nodes : atStart.statuses[n] = "SUCCESS" /\ n \notin Entries(state.next)
    /\ state.next # <<>>

\* C34: after every scheduler tick the frontier lists, once each, exactly the
\* nodes that are PENDING with every dependency SUCCESS or CACHED in the
\* statuses of that moment, so it holds no node with a terminal status; this
\* is so for the first tick of a resume, whatever the snapshot held, and the
\* node routed to is taken from that frontier.
C34_FrontierRecomputed ==
    [][(pc = "router") =>
          /\ Entries(state'.next) = ReadySet(state'.statuses)
          /\ Len(state'.next) = Cardinality(Entries(state'.next))
          /\ \A n \in Entries(state'.next) : state'.statuses[n] \notin Terminal
          /\ (pc' = "node") => (cur' \in ReadySet(state'.statuses))]_vars

\* C35 (as claimed): at every scheduler tick and at the end of every attempt
\* the status and the output of each node in the run store equal its status
\* and its output in the run state.
C35_StoreMirrorsState ==
    (pc = "router" \/ AttemptEnded) =>
        \A n \in Nodes :
            /\ meta.nodes[n].status = state.statuses[n]
            /\ meta.nodes[n].output = state.outputs[n]

\* C36 (as claimed): when an attempt has ended, a node record of the run store
\* has an error only if its status is FAILED.
C36_ErrorOnlyIfFailed ==
    AttemptEnded =>
        \A n \in Nodes : (meta.nodes[n].error # "none") => (meta.nodes[n].status = "FAILED")

\* C37 (as claimed): two node specs get the same cache key only if they are
\* of the same kind and run with the same command or agent, arguments,
\* environment, working directory, prompt, inputs and output-verification
\* spec.
C37_SameKeyOnlyIfSameSpec ==
    (keys # <<>> /\ keys[1] = keys[2]) => (Effective(specs[1]) = Effective(specs[2]))

\* the attempt is a resume of a snapshot in which every node is completed
ResumedAllDone ==
    /\ isResume /\ atStart.has
    /\ \A n \in Nodes : atStart.statuses[n] \in Completed

C39_Witness ==
    /\ AttemptEnded /\ thrown = "deadlock" /\ ~Acyclic(deps)
    /\ \E n \in Nodes : dispatched[n] = 1
    /\ \E n \in Nodes : dispatched[n] = 0

\* C39: every scheduler tick routes to one node that is not terminal and has
\* not been dispatched in this attempt, or ends the run, or raises the deadlock
\* error; no node is dispatched twice in an attempt, so an attempt over N nodes
\* makes at most N dispatches and N+1 ticks; and every attempt that has been
\* started ends, for every workflow shape, cyclic ones included.
C39_AttemptTerminates ==
    /\ [](\A n \in Nodes : dispatched[n] <= 1)
    /\ [][(pc = "router") =>
             \/ /\ pc' = "node"
                /\ state'.statuses[cur'] \notin Terminal
                /\ dispatched[cur'] = 0
             \/ pc' \in {"end", "deadlock"}]_vars
    /\ ((pc # "idle") ~> AttemptEnded)

====
